---- MODULE Spec2Model ----
(***************************************************************************)
(* Persistent map (path-copying binary search tree ordered by the FNV-1    *)
(* hash of the key) and persistent list (cons cells) of package ps.        *)
(*                                                                         *)
(* Nodes live in an explicit heap: a sequence of records indexed by        *)
(* address.  Every operation of the package is an operator that takes the  *)
(* heap and returns the heap it leaves behind together with its results,   *)
(* so that allocation, sharing and (absence of) writes to old nodes are    *)
(* all visible in the state.                                               *)
(***************************************************************************)
EXTENDS Integers, Sequences, FiniteSets, TLC

VARIABLES heap, maps, nops, last, lheap, lists, lnops, llast, base, proc

vars == <<heap, maps, nops, last, lheap, lists, lnops, llast, base, proc>>

mapVars == <<heap, maps, nops, last>>

listVars == <<lheap, lists, lnops, llast>>

concVars == <<base, proc>>

(***************************************************************************)
(* Bounds and input universes.                                             *)
(***************************************************************************)

\* number of Set/Delete calls made after the initial chain of Sets
MaxOps == 1

\* number of list operations
MaxListOps == 4

\* keys handed to the map, as the bytes Fprint writes into the hasher
Bytes ==
    [k \in {"hello", "one", "two", "three", "b"} |->
        CASE k = "hello" -> <<104, 101, 108, 108, 111>>
          [] k = "one"   -> <<111, 110, 101>>
          [] k = "two"   -> <<116, 119, 111>>
          [] k = "three" -> <<116, 104, 114, 101, 101>>
          [] k = "b"     -> <<98>>]

KeySpace == DOMAIN Bytes

\* values handed to Set and Cons; Nil is Go's nil interface value
Nil == 0

ValueSpace == {1, 2}

(***************************************************************************)
(* hashKey: FNV-1 (multiply by the FNV prime, then xor the byte), folded   *)
(* over the key's bytes.  The hash is kept to its HashBits low-order bits: *)
(* multiplication modulo a power of two and xor with a byte never carry    *)
(* from high bits into low bits, so this is exactly the low byte of the    *)
(* 64-bit sum.  Narrowing makes "two" and "b" collide (both 189).          *)
(***************************************************************************)

HashBits == 8

HashMod == 2 ^ HashBits

\* 14695981039346656037 % 256
offset64 == 37

\* 1099511628211 % 256
prime64 == 179

RECURSIVE Xor(_, _)
Xor(a, b) ==
    IF a = 0 THEN b
    ELSE IF b = 0 THEN a
    ELSE 2 * Xor(a \div 2, b \div 2) + ((a + b) % 2)

RECURSIVE fnvWrite(_, _)
fnvWrite(h, data) ==
    IF data = <<>> THEN h
    ELSE fnvWrite(Xor((h * prime64) % HashMod, Head(data)), Tail(data))

\* Sum64 of every key of the universe, computed once
sum64 == [k \in KeySpace |-> fnvWrite(offset64, Bytes[k])]

hashKey(key) == sum64[key]

(***************************************************************************)
(* The tree node and the canonical empty map.                              *)
(***************************************************************************)

\* address of the package-level empty map
nilMap == 1

\* &tree{} after init(): zero fields, children pointing at itself
nilMapNode ==
    [count |-> 0, hash |-> 0, key |-> "", value |-> Nil,
     left |-> nilMap, right |-> nilMap]

NewMap == nilMap

IsNil(self) == self = nilMap

\* clone without the allocation: the "copy" is the receiver itself
clone_alias(h, self) == [heap |-> h, ref |-> self]

\* clone allocates one node holding a copy of every field of self
clone(h, self) == [heap |-> Append(h, h[self]), ref |-> Len(h) + 1]

Size(h, m) == h[m].count

hasLeft(h, m) == ~IsNil(h[m].left)

hasRight(h, m) == ~IsNil(h[m].right)

isLeaf(h, m) == Size(h, m) = 1

subtreeCount(h, m) ==
    (IF hasLeft(h, m) THEN 1 ELSE 0) + (IF hasRight(h, m) THEN 1 ELSE 0)

\* recalculateCount forgetting to count the node itself
recalculateCount_noSelf(h, m) ==
    LET c1 == IF ~IsNil(h[m].left) THEN Size(h, h[m].left) ELSE 0
        c2 == IF ~IsNil(h[m].right) THEN Size(h, h[m].right) ELSE 0
    IN  [h EXCEPT ![m].count = c1 + c2]

\* writes m.count from the counts of m's subtrees
recalculateCount(h, m) ==
    LET c1 == IF ~IsNil(h[m].left) THEN Size(h, h[m].left) ELSE 0
        c2 == IF ~IsNil(h[m].right) THEN Size(h, h[m].right) ELSE 0
    IN  [h EXCEPT ![m].count = c1 + c2 + 1]

(***************************************************************************)
(* Set                                                                     *)
(***************************************************************************)

\* the replacement branch forgetting the assignment m.value = value
replaceValue_keep(h, self, value) == clone(h, self)

\* replaceValue copying the left child of the node as well
replaceValue_copyChild(h, self, value) ==
    LET m == clone(h, self)
        c == clone(m.heap, h[self].left)
    IN  [heap |-> [c.heap EXCEPT ![m.ref].value = value, ![m.ref].left = c.ref],
         ref |-> m.ref]

\* map.go 135-138: "replacing a key's previous value"
replaceValue(h, self, value) ==
    LET m == clone(h, self)
    IN  [heap |-> [m.heap EXCEPT ![m.ref].value = value], ref |-> m.ref]

RECURSIVE setLowLevel(_, _, _, _, _)
setLowLevel(h, self, hash, key, value) ==
    IF IsNil(self) THEN
        LET m == clone(h, self)
        IN  [heap |-> [m.heap EXCEPT ![m.ref].count = 1,
                                     ![m.ref].hash = hash,
                                     ![m.ref].key = key,
                                     ![m.ref].value = value],
             ref |-> m.ref]
    ELSE IF hash < h[self].hash THEN
        LET m == clone(h, self)
            sub == setLowLevel(m.heap, h[self].left, hash, key, value)
            h1 == [sub.heap EXCEPT ![m.ref].left = sub.ref]
        IN  [heap |-> recalculateCount(h1, m.ref), ref |-> m.ref]
    ELSE IF hash > h[self].hash THEN
        LET m == clone(h, self)
            sub == setLowLevel(m.heap, h[self].right, hash, key, value)
            h1 == [sub.heap EXCEPT ![m.ref].right = sub.ref]
        IN  [heap |-> recalculateCount(h1, m.ref), ref |-> m.ref]
    ELSE
        replaceValue(h, self, value)

Set(h, self, key, value) == setLowLevel(h, self, hashKey(key), key, value)

(***************************************************************************)
(* Delete                                                                  *)
(***************************************************************************)

RECURSIVE deleteRightmost(_, _)
deleteRightmost(h, m) ==
    IF isLeaf(h, m) THEN
        [heap |-> h, deleted |-> m, rest |-> nilMap]
    ELSE IF hasRight(h, m) THEN
        LET sub == deleteRightmost(h, h[m].right)
            newMap == clone(sub.heap, m)
            h1 == [newMap.heap EXCEPT ![newMap.ref].right = sub.rest]
        IN  [heap |-> recalculateCount(h1, newMap.ref),
             deleted |-> sub.deleted, rest |-> newMap.ref]
    ELSE
        LET deleted == clone(h, m)
        IN  [heap |-> [deleted.heap EXCEPT ![deleted.ref].left = nilMap],
             deleted |-> deleted.ref, rest |-> h[m].left]

RECURSIVE deleteLeftmost(_, _)
deleteLeftmost(h, m) ==
    IF isLeaf(h, m) THEN
        [heap |-> h, deleted |-> m, rest |-> nilMap]
    ELSE IF hasLeft(h, m) THEN
        LET sub == deleteLeftmost(h, h[m].left)
            newMap == clone(sub.heap, m)
            h1 == [newMap.heap EXCEPT ![newMap.ref].left = sub.rest]
        IN  [heap |-> recalculateCount(h1, newMap.ref),
             deleted |-> sub.deleted, rest |-> newMap.ref]
    ELSE
        LET deleted == clone(h, m)
        IN  [heap |-> [deleted.heap EXCEPT ![deleted.ref].count = 1,
                                           ![deleted.ref].right = nilMap],
             deleted |-> deleted.ref, rest |-> h[m].right]

\* deleteOwnNode forgetting recalculateCount on the replacement node
deleteOwnNode_staleCount(h, self) ==
    IF isLeaf(h, self) THEN
        [heap |-> h, ref |-> nilMap, found |-> TRUE]
    ELSE IF subtreeCount(h, self) = 1 THEN
        IF hasLeft(h, self)
        THEN [heap |-> h, ref |-> h[self].left, found |-> TRUE]
        ELSE [heap |-> h, ref |-> h[self].right, found |-> TRUE]
    ELSE IF Size(h, h[self].left) > Size(h, h[self].right) THEN
        LET sub == deleteRightmost(h, h[self].left)
            newMap == clone(sub.heap, sub.deleted)
        IN  [heap |-> [newMap.heap EXCEPT ![newMap.ref].left = sub.rest,
                                          ![newMap.ref].right = h[self].right],
             ref |-> newMap.ref, found |-> TRUE]
    ELSE
        LET sub == deleteLeftmost(h, h[self].right)
            newMap == clone(sub.heap, sub.deleted)
        IN  [heap |-> [newMap.heap EXCEPT ![newMap.ref].right = sub.rest,
                                          ![newMap.ref].left = h[self].left],
             ref |-> newMap.ref, found |-> TRUE]

\* deleteOwnNode taking the replacement from the near end of the bigger
\* child: the leftmost node of the left child, the rightmost of the right
deleteOwnNode_nearEnd(h, self) ==
    IF isLeaf(h, self) THEN
        [heap |-> h, ref |-> nilMap, found |-> TRUE]
    ELSE IF subtreeCount(h, self) = 1 THEN
        IF hasLeft(h, self)
        THEN [heap |-> h, ref |-> h[self].left, found |-> TRUE]
        ELSE [heap |-> h, ref |-> h[self].right, found |-> TRUE]
    ELSE IF Size(h, h[self].left) > Size(h, h[self].right) THEN
        LET sub == deleteLeftmost(h, h[self].left)
            newMap == clone(sub.heap, sub.deleted)
            h1 == [newMap.heap EXCEPT ![newMap.ref].left = sub.rest,
                                      ![newMap.ref].right = h[self].right]
        IN  [heap |-> recalculateCount(h1, newMap.ref),
             ref |-> newMap.ref, found |-> TRUE]
    ELSE
        LET sub == deleteRightmost(h, h[self].right)
            newMap == clone(sub.heap, sub.deleted)
            h1 == [newMap.heap EXCEPT ![newMap.ref].right = sub.rest,
                                      ![newMap.ref].left = h[self].left]
        IN  [heap |-> recalculateCount(h1, newMap.ref),
             ref |-> newMap.ref, found |-> TRUE]

\* deleteOwnNode breaking ties toward the left child
deleteOwnNode_tieLeft(h, self) ==
    IF isLeaf(h, self) THEN
        [heap |-> h, ref |-> nilMap, found |-> TRUE]
    ELSE IF subtreeCount(h, self) = 1 THEN
        IF hasLeft(h, self)
        THEN [heap |-> h, ref |-> h[self].left, found |-> TRUE]
        ELSE [heap |-> h, ref |-> h[self].right, found |-> TRUE]
    ELSE IF Size(h, h[self].left) >= Size(h, h[self].right) THEN
        LET sub == deleteRightmost(h, h[self].left)
            newMap == clone(sub.heap, sub.deleted)
            h1 == [newMap.heap EXCEPT ![newMap.ref].left = sub.rest,
                                      ![newMap.ref].right = h[self].right]
        IN  [heap |-> recalculateCount(h1, newMap.ref),
             ref |-> newMap.ref, found |-> TRUE]
    ELSE
        LET sub == deleteLeftmost(h, h[self].right)
            newMap == clone(sub.heap, sub.deleted)
            h1 == [newMap.heap EXCEPT ![newMap.ref].right = sub.rest,
                                      ![newMap.ref].left = h[self].left]
        IN  [heap |-> recalculateCount(h1, newMap.ref),
             ref |-> newMap.ref, found |-> TRUE]

\* deleteOwnNode returning a fresh empty node when the last entry goes
deleteOwnNode_freshEmpty(h, self) ==
    IF isLeaf(h, self) THEN
        LET e == clone(h, nilMap)
        IN  [heap |-> e.heap, ref |-> e.ref, found |-> TRUE]
    ELSE IF subtreeCount(h, self) = 1 THEN
        IF hasLeft(h, self)
        THEN [heap |-> h, ref |-> h[self].left, found |-> TRUE]
        ELSE [heap |-> h, ref |-> h[self].right, found |-> TRUE]
    ELSE IF Size(h, h[self].left) > Size(h, h[self].right) THEN
        LET sub == deleteRightmost(h, h[self].left)
            newMap == clone(sub.heap, sub.deleted)
            h1 == [newMap.heap EXCEPT ![newMap.ref].left = sub.rest,
                                      ![newMap.ref].right = h[self].right]
        IN  [heap |-> recalculateCount(h1, newMap.ref),
             ref |-> newMap.ref, found |-> TRUE]
    ELSE
        LET sub == deleteLeftmost(h, h[self].right)
            newMap == clone(sub.heap, sub.deleted)
            h1 == [newMap.heap EXCEPT ![newMap.ref].right = sub.rest,
                                      ![newMap.ref].left = h[self].left]
        IN  [heap |-> recalculateCount(h1, newMap.ref),
             ref |-> newMap.ref, found |-> TRUE]

\* map.go 185-212: "we must delete our own node"
deleteOwnNode(h, self) ==
    IF isLeaf(h, self) THEN
        [heap |-> h, ref |-> nilMap, found |-> TRUE]
    ELSE IF subtreeCount(h, self) = 1 THEN
        IF hasLeft(h, self)
        THEN [heap |-> h, ref |-> h[self].left, found |-> TRUE]
        ELSE [heap |-> h, ref |-> h[self].right, found |-> TRUE]
    ELSE IF Size(h, h[self].left) > Size(h, h[self].right) THEN
        LET sub == deleteRightmost(h, h[self].left)
            newMap == clone(sub.heap, sub.deleted)
            h1 == [newMap.heap EXCEPT ![newMap.ref].left = sub.rest,
                                      ![newMap.ref].right = h[self].right]
        IN  [heap |-> recalculateCount(h1, newMap.ref),
             ref |-> newMap.ref, found |-> TRUE]
    ELSE
        LET sub == deleteLeftmost(h, h[self].right)
            newMap == clone(sub.heap, sub.deleted)
            h1 == [newMap.heap EXCEPT ![newMap.ref].right = sub.rest,
                                      ![newMap.ref].left = h[self].left]
        IN  [heap |-> recalculateCount(h1, newMap.ref),
             ref |-> newMap.ref, found |-> TRUE]

RECURSIVE deleteLowLevel(_, _, _)

\* lookInLeft building newMap before it tests found, and returning it
\* when the hash was not found
lookInLeft_eager(h, self, hash) ==
    LET sub == deleteLowLevel(h, h[self].left, hash)
        newMap == clone(sub.heap, self)
        h1 == [newMap.heap EXCEPT ![newMap.ref].left = sub.ref]
    IN  [returned |-> ~sub.found, heap |-> recalculateCount(h1, newMap.ref),
         ref |-> newMap.ref, found |-> sub.found]

\* map.go 166-174: the block "look in the left subtree".  It returns only
\* when the hash was not found; when it was found the block builds newMap
\* and ends without returning it (returned = FALSE).
lookInLeft(h, self, hash) ==
    LET sub == deleteLowLevel(h, h[self].left, hash)
    IN  IF ~sub.found THEN
            [returned |-> TRUE, heap |-> sub.heap, ref |-> self, found |-> FALSE]
        ELSE
            LET newMap == clone(sub.heap, self)
                h1 == [newMap.heap EXCEPT ![newMap.ref].left = sub.ref]
            IN  [returned |-> FALSE, heap |-> recalculateCount(h1, newMap.ref),
                 ref |-> newMap.ref, found |-> TRUE]

\* map.go 175-183: the block "look in the right subtree", same shape
lookInRight(h, self, hash) ==
    LET sub == deleteLowLevel(h, h[self].right, hash)
    IN  IF ~sub.found THEN
            [returned |-> TRUE, heap |-> sub.heap, ref |-> self, found |-> FALSE]
        ELSE
            LET newMap == clone(sub.heap, self)
                h1 == [newMap.heap EXCEPT ![newMap.ref].right = sub.ref]
            IN  [returned |-> FALSE, heap |-> recalculateCount(h1, newMap.ref),
                 ref |-> newMap.ref, found |-> TRUE]

deleteLowLevel(h, self, hash) ==
    IF IsNil(self) THEN
        [heap |-> h, ref |-> self, found |-> FALSE]
    ELSE
        LET l == IF hash < h[self].hash
                 THEN lookInLeft(h, self, hash)
                 ELSE [returned |-> FALSE, heap |-> h]
        IN  IF l.returned THEN
                [heap |-> l.heap, ref |-> l.ref, found |-> l.found]
            ELSE
                LET r == IF hash > l.heap[self].hash
                         THEN lookInRight(l.heap, self, hash)
                         ELSE [returned |-> FALSE, heap |-> l.heap]
                IN  IF r.returned THEN
                        [heap |-> r.heap, ref |-> r.ref, found |-> r.found]
                    ELSE
                        deleteOwnNode(r.heap, self)

Delete(h, m, key) ==
    LET d == deleteLowLevel(h, m, hashKey(key))
    IN  [heap |-> d.heap, ref |-> d.ref]

(***************************************************************************)
(* Lookup, ForEach, Keys                                                   *)
(***************************************************************************)

RECURSIVE lookupLowLevel(_, _, _)

\* lookupLowLevel with the two descents exchanged
lookupLowLevel_swapped(h, self, hash) ==
    IF IsNil(self) THEN [value |-> Nil, found |-> FALSE]
    ELSE IF hash < h[self].hash THEN lookupLowLevel(h, h[self].right, hash)
    ELSE IF hash > h[self].hash THEN lookupLowLevel(h, h[self].left, hash)
    ELSE [value |-> h[self].value, found |-> TRUE]

lookupLowLevel(h, self, hash) ==
    IF IsNil(self) THEN [value |-> Nil, found |-> FALSE]
    ELSE IF hash < h[self].hash THEN lookupLowLevel(h, h[self].left, hash)
    ELSE IF hash > h[self].hash THEN lookupLowLevel(h, h[self].right, hash)
    ELSE [value |-> h[self].value, found |-> TRUE]

Lookup(h, m, key) == lookupLowLevel(h, m, hashKey(key))

RECURSIVE ForEach(_, _)

\* ForEach calling f on the node before its left branch
ForEach_preorder(h, m) ==
    IF IsNil(m) THEN <<>>
    ELSE <<[key |-> h[m].key, val |-> h[m].value]>>
         \o (IF ~IsNil(h[m].left) THEN ForEach(h, h[m].left) ELSE <<>>)
         \o (IF ~IsNil(h[m].right) THEN ForEach(h, h[m].right) ELSE <<>>)

\* the sequence of (key, value) pairs the callback is called with
ForEach(h, m) ==
    IF IsNil(m) THEN <<>>
    ELSE (IF ~IsNil(h[m].left) THEN ForEach(h, h[m].left) ELSE <<>>)
         \o <<[key |-> h[m].key, val |-> h[m].value]>>
         \o (IF ~IsNil(h[m].right) THEN ForEach(h, h[m].right) ELSE <<>>)

\* keys is a slice of length Size(); the callback stores the i-th visited
\* key at index i, which panics when more keys are visited than Size()
Keys(h, m) ==
    LET visited == ForEach(h, m)
    IN  [panic |-> Len(visited) > Size(h, m),
         keys |-> [i \in 1..Size(h, m) |->
                      IF i <= Len(visited) THEN visited[i].key ELSE ""]]

(***************************************************************************)
(* The map as a state machine: the program holds the map values it has     *)
(* been handed (maps, root addresses) and calls Set and Delete on them.    *)
(* It starts from NewMap() with a chain NewMap().Set(..).Set(..) of new    *)
(* keys, of which only the final value is kept, and then makes up to       *)
(* MaxOps calls on any value it holds, keeping every result.               *)
(***************************************************************************)

MapInit ==
    /\ heap = <<nilMapNode>>
    /\ maps = <<NewMap>>
    /\ nops = 0
    /\ last = [op |-> "NewMap", recv |-> nilMap, key |-> "", value |-> Nil,
               ref |-> nilMap]

SetChain(k) ==
    /\ nops = 0
    /\ ~Lookup(heap, maps[1], k).found
    /\ LET s == Set(heap, maps[1], k, 1)
       IN  /\ heap' = s.heap
           /\ maps' = <<s.ref>>
           /\ last' = [op |-> "Set", recv |-> maps[1], key |-> k, value |-> 1,
                       ref |-> s.ref]
    /\ UNCHANGED <<nops, listVars, concVars>>

SetOp(i, k, v) ==
    /\ nops < MaxOps
    /\ LET s == Set(heap, maps[i], k, v)
       IN  /\ heap' = s.heap
           /\ maps' = Append(maps, s.ref)
           /\ last' = [op |-> "Set", recv |-> maps[i], key |-> k, value |-> v,
                       ref |-> s.ref]
    /\ nops' = nops + 1
    /\ UNCHANGED <<listVars, concVars>>

DeleteOp(i, k) ==
    /\ nops < MaxOps
    /\ LET d == Delete(heap, maps[i], k)
       IN  /\ heap' = d.heap
           /\ maps' = Append(maps, d.ref)
           /\ last' = [op |-> "Delete", recv |-> maps[i], key |-> k,
                       value |-> Nil, ref |-> d.ref]
    /\ nops' = nops + 1
    /\ UNCHANGED <<listVars, concVars>>

(***************************************************************************)
(* The list: cons cells in a heap of their own.                            *)
(***************************************************************************)

\* Go's nil pointer, the tail of the empty list
nilPtr == 0

\* address of the package-level empty list
nilList == 1

\* &list{}: zero fields
nilListNode == [depth |-> 0, value |-> Nil, tail |-> nilPtr]

NewList == nilList

listIsNil(self) == self = nilList

listSize(h, self) == h[self].depth

\* Cons forgetting to count the new node
listCons_sameDepth(h, tail, val) ==
    [heap |-> Append(h, [depth |-> h[tail].depth, value |-> val,
                         tail |-> tail]),
     ref |-> Len(h) + 1]

listCons(h, tail, val) ==
    [heap |-> Append(h, [depth |-> h[tail].depth + 1, value |-> val,
                         tail |-> tail]),
     ref |-> Len(h) + 1]

\* Head without the check for the empty list
listHead_unchecked(h, self) == [panic |-> FALSE, value |-> h[self].value]

listHead(h, self) ==
    IF listIsNil(self)
    THEN [panic |-> TRUE, value |-> Nil]
    ELSE [panic |-> FALSE, value |-> h[self].value]

listTail(h, self) ==
    IF listIsNil(self)
    THEN [panic |-> TRUE, ref |-> nilPtr]
    ELSE [panic |-> FALSE, ref |-> h[self].tail]

\* the sequence of values the callback is called with
RECURSIVE listForEach(_, _)
listForEach(h, self) ==
    IF listIsNil(self) THEN <<>>
    ELSE <<listHead(h, self).value>> \o listForEach(h, listTail(h, self).ref)

RECURSIVE consAll(_, _, _)

\* the fold consing the later values first: the result is a copy in the
\* receiver's own order
consAll_sameOrder(h, reversed, values) ==
    IF values = <<>> THEN [heap |-> h, ref |-> reversed]
    ELSE LET r == consAll(h, reversed, Tail(values))
         IN  listCons(r.heap, r.ref, Head(values))

\* the callback of Reverse, applied to the visited values in turn
consAll(h, reversed, values) ==
    IF values = <<>> THEN [heap |-> h, ref |-> reversed]
    ELSE LET c == listCons(h, reversed, Head(values))
         IN  consAll(c.heap, c.ref, Tail(values))

listReverse(h, self) == consAll(h, NewList, listForEach(h, self))

ListInit ==
    /\ lheap = <<nilListNode>>
    /\ lists = <<NewList>>
    /\ lnops = 0
    /\ llast = [op |-> "NewList", recv |-> nilList, value |-> Nil,
                ref |-> nilList, panic |-> FALSE]

ConsOp(i, v) ==
    /\ lnops < MaxListOps
    /\ LET c == listCons(lheap, lists[i], v)
       IN  /\ lheap' = c.heap
           /\ lists' = Append(lists, c.ref)
           /\ llast' = [op |-> "Cons", recv |-> lists[i], value |-> v,
                        ref |-> c.ref, panic |-> FALSE]
    /\ lnops' = lnops + 1
    /\ UNCHANGED <<mapVars, concVars>>

\* a panic unwinds the call: nothing is returned and nothing is kept
HeadOp(i) ==
    /\ lnops < MaxListOps
    /\ LET r == listHead(lheap, lists[i])
       IN  llast' = [op |-> "Head", recv |-> lists[i], value |-> r.value,
                     ref |-> lists[i], panic |-> r.panic]
    /\ lnops' = lnops + 1
    /\ UNCHANGED <<lheap, lists, mapVars, concVars>>

TailOp(i) ==
    /\ lnops < MaxListOps
    /\ LET r == listTail(lheap, lists[i])
       IN  /\ lists' = IF r.panic THEN lists ELSE Append(lists, r.ref)
           /\ llast' = [op |-> "Tail", recv |-> lists[i], value |-> Nil,
                        ref |-> r.ref, panic |-> r.panic]
    /\ lnops' = lnops + 1
    /\ UNCHANGED <<lheap, mapVars, concVars>>

ReverseOp(i) ==
    /\ lnops < MaxListOps
    /\ LET r == listReverse(lheap, lists[i])
       IN  /\ lheap' = r.heap
           /\ lists' = Append(lists, r.ref)
           /\ llast' = [op |-> "Reverse", recv |-> lists[i], value |-> Nil,
                        ref |-> r.ref, panic |-> FALSE]
    /\ lnops' = lnops + 1
    /\ UNCHANGED <<mapVars, concVars>>

(***************************************************************************)
(* Concurrent construction.  Two goroutines each make one call of Set or   *)
(* Delete on the same base map, over one shared heap.  A call is executed  *)
(* statement by statement with its own stack of activation records; one    *)
(* step of a goroutine runs it up to and including its next allocation or  *)
(* field write, so the allocations and writes of the two calls interleave  *)
(* in every order.                                                         *)
(***************************************************************************)

Procs == {1, 2}

\* the chains NewMap().Set(..).Set(..) that build the base maps
BaseOrders ==
    { <<>>,
      <<"two">>,
      <<"three", "one", "hello">>,
      <<"two", "three", "hello", "one">>,
      <<"three", "one", "hello", "two">>,
      <<"two", "one", "hello", "three">>,
      <<"three", "one", "two", "hello">> }

RECURSIVE buildMap(_, _, _)
buildMap(h, m, order) ==
    IF order = <<>> THEN [heap |-> h, ref |-> m]
    ELSE LET s == Set(h, m, Head(order), 1)
         IN  buildMap(s.heap, s.ref, Tail(order))

\* an activation record: the function, where it stands, its receiver and
\* its local node variables
Frame(fn, self) == [fn |-> fn, pc |-> "start", self |-> self,
                    m |-> 0, x |-> 0, y |-> 0]

noRet == [ref |-> 0, ref2 |-> 0, found |-> FALSE]

idle == [op |-> "none", key |-> "", value |-> Nil,
         stack |-> <<>>, ret |-> noRet, done |-> FALSE]

Top(st) == st.stack[Len(st.stack)]

\* the running function moves to pc with its locals set
Goto(st, f) == [st EXCEPT !.stack[Len(st.stack)] = f]

\* the running function calls fn on self and will resume at pc
Call(st, pc, fn, self) ==
    [st EXCEPT !.stack = Append([@ EXCEPT ![Len(@)].pc = pc], Frame(fn, self))]

\* the running function returns r to its caller, or to the goroutine
Return(st, r) ==
    [st EXCEPT !.stack = SubSeq(@, 1, Len(@) - 1),
               !.ret = r,
               !.done = Len(st.stack) = 1]

Pure(h, st) == [heap |-> h, st |-> st, effect |-> FALSE]

Effect(h, st) == [heap |-> h, st |-> st, effect |-> TRUE]

\* one statement of setLowLevel
setStmt(h, st) ==
    LET f == Top(st)
        hash == hashKey(st.key)
    IN  CASE f.pc = "start" ->
               LET c == clone(h, f.self)
                   to == IF IsNil(f.self) THEN "count"
                         ELSE IF hash < h[f.self].hash THEN "left"
                         ELSE IF hash > h[f.self].hash THEN "right"
                         ELSE "replace"
               IN  Effect(c.heap, Goto(st, [f EXCEPT !.m = c.ref, !.pc = to]))
          [] f.pc = "count" ->
               Effect([h EXCEPT ![f.m].count = 1],
                      Goto(st, [f EXCEPT !.pc = "hash"]))
          [] f.pc = "hash" ->
               Effect([h EXCEPT ![f.m].hash = hash],
                      Goto(st, [f EXCEPT !.pc = "key"]))
          [] f.pc = "key" ->
               Effect([h EXCEPT ![f.m].key = st.key],
                      Goto(st, [f EXCEPT !.pc = "value"]))
          [] f.pc \in {"value", "replace"} ->
               Effect([h EXCEPT ![f.m].value = st.value],
                      Goto(st, [f EXCEPT !.pc = "return"]))
          [] f.pc = "left" ->
               Pure(h, Call(st, "setLeft", "set", h[f.self].left))
          [] f.pc = "setLeft" ->
               Effect([h EXCEPT ![f.m].left = st.ret.ref],
                      Goto(st, [f EXCEPT !.pc = "recalculate"]))
          [] f.pc = "right" ->
               Pure(h, Call(st, "setRight", "set", h[f.self].right))
          [] f.pc = "setRight" ->
               Effect([h EXCEPT ![f.m].right = st.ret.ref],
                      Goto(st, [f EXCEPT !.pc = "recalculate"]))
          [] f.pc = "recalculate" ->
               Effect(recalculateCount(h, f.m),
                      Goto(st, [f EXCEPT !.pc = "return"]))
          [] f.pc = "return" ->
               Pure(h, Return(st, [noRet EXCEPT !.ref = f.m]))

\* one statement of deleteLowLevel
deleteStmt(h, st) ==
    LET f == Top(st)
        hash == hashKey(st.key)
        notFound == [noRet EXCEPT !.ref = f.self]
    IN  CASE f.pc = "start" ->
               IF IsNil(f.self) THEN Pure(h, Return(st, notFound))
               ELSE IF hash < h[f.self].hash
               THEN Pure(h, Call(st, "foundLeft", "delete", h[f.self].left))
               ELSE Pure(h, Goto(st, [f EXCEPT !.pc = "lookRight"]))
          [] f.pc = "foundLeft" ->
               IF ~st.ret.found THEN Pure(h, Return(st, notFound))
               ELSE LET c == clone(h, f.self)
                    IN  Effect(c.heap, Goto(st, [f EXCEPT !.m = c.ref,
                                                          !.x = st.ret.ref,
                                                          !.pc = "newLeft"]))
          [] f.pc = "newLeft" ->
               Effect([h EXCEPT ![f.m].left = f.x],
                      Goto(st, [f EXCEPT !.pc = "recalculateLeft"]))
          [] f.pc = "recalculateLeft" ->
               Effect(recalculateCount(h, f.m),
                      Goto(st, [f EXCEPT !.pc = "lookRight"]))
          [] f.pc = "lookRight" ->
               IF hash > h[f.self].hash
               THEN Pure(h, Call(st, "foundRight", "delete", h[f.self].right))
               ELSE Pure(h, Goto(st, [f EXCEPT !.pc = "own"]))
          [] f.pc = "foundRight" ->
               IF ~st.ret.found THEN Pure(h, Return(st, notFound))
               ELSE LET c == clone(h, f.self)
                    IN  Effect(c.heap, Goto(st, [f EXCEPT !.m = c.ref,
                                                          !.x = st.ret.ref,
                                                          !.pc = "newRight"]))
          [] f.pc = "newRight" ->
               Effect([h EXCEPT ![f.m].right = f.x],
                      Goto(st, [f EXCEPT !.pc = "recalculateRight"]))
          [] f.pc = "recalculateRight" ->
               Effect(recalculateCount(h, f.m),
                      Goto(st, [f EXCEPT !.pc = "own"]))
          [] f.pc = "own" ->
               IF isLeaf(h, f.self) THEN
                   Pure(h, Return(st, [ref |-> nilMap, ref2 |-> 0,
                                       found |-> TRUE]))
               ELSE IF subtreeCount(h, f.self) = 1 THEN
                   Pure(h, Return(st,
                        [ref |-> IF hasLeft(h, f.self) THEN h[f.self].left
                                 ELSE h[f.self].right,
                         ref2 |-> 0, found |-> TRUE]))
               ELSE IF Size(h, h[f.self].left) > Size(h, h[f.self].right) THEN
                   Pure(h, Call(st, "fromLeft", "deleteRightmost",
                                h[f.self].left))
               ELSE
                   Pure(h, Call(st, "fromRight", "deleteLeftmost",
                                h[f.self].right))
          [] f.pc = "fromLeft" ->
               LET c == clone(h, st.ret.ref)
               IN  Effect(c.heap, Goto(st, [f EXCEPT !.m = c.ref,
                                                     !.x = st.ret.ref2,
                                                     !.pc = "fromLeft1"]))
          [] f.pc = "fromLeft1" ->
               Effect([h EXCEPT ![f.m].left = f.x],
                      Goto(st, [f EXCEPT !.pc = "fromLeft2"]))
          [] f.pc = "fromLeft2" ->
               Effect([h EXCEPT ![f.m].right = h[f.self].right],
                      Goto(st, [f EXCEPT !.pc = "recalculate"]))
          [] f.pc = "fromRight" ->
               LET c == clone(h, st.ret.ref)
               IN  Effect(c.heap, Goto(st, [f EXCEPT !.m = c.ref,
                                                     !.x = st.ret.ref2,
                                                     !.pc = "fromRight1"]))
          [] f.pc = "fromRight1" ->
               Effect([h EXCEPT ![f.m].right = f.x],
                      Goto(st, [f EXCEPT !.pc = "fromRight2"]))
          [] f.pc = "fromRight2" ->
               Effect([h EXCEPT ![f.m].left = h[f.self].left],
                      Goto(st, [f EXCEPT !.pc = "recalculate"]))
          [] f.pc = "recalculate" ->
               Effect(recalculateCount(h, f.m),
                      Goto(st, [f EXCEPT !.pc = "return"]))
          [] f.pc = "return" ->
               Pure(h, Return(st, [ref |-> f.m, ref2 |-> 0, found |-> TRUE]))

\* one statement of deleteRightmost (right = TRUE) or deleteLeftmost
extremeStmt(h, st, right) ==
    LET f == Top(st)
        fn == IF right THEN "deleteRightmost" ELSE "deleteLeftmost"
        has == IF right THEN hasRight(h, f.self) ELSE hasLeft(h, f.self)
        toward == IF right THEN h[f.self].right ELSE h[f.self].left
        away == IF right THEN h[f.self].left ELSE h[f.self].right
    IN  CASE f.pc = "start" ->
               IF isLeaf(h, f.self) THEN
                   Pure(h, Return(st, [ref |-> f.self, ref2 |-> nilMap,
                                       found |-> TRUE]))
               ELSE IF has THEN
                   Pure(h, Call(st, "rebuilt", fn, toward))
               ELSE
                   LET c == clone(h, f.self)
                   IN  Effect(c.heap,
                              Goto(st, [f EXCEPT !.m = c.ref,
                                                 !.pc = IF right THEN "cut"
                                                        ELSE "count"]))
          [] f.pc = "rebuilt" ->
               LET c == clone(h, f.self)
               IN  Effect(c.heap, Goto(st, [f EXCEPT !.m = c.ref,
                                                     !.x = st.ret.ref,
                                                     !.y = st.ret.ref2,
                                                     !.pc = "attach"]))
          [] f.pc = "attach" ->
               Effect(IF right THEN [h EXCEPT ![f.m].right = f.y]
                               ELSE [h EXCEPT ![f.m].left = f.y],
                      Goto(st, [f EXCEPT !.pc = "recalculate"]))
          [] f.pc = "recalculate" ->
               Effect(recalculateCount(h, f.m),
                      Goto(st, [f EXCEPT !.pc = "returnRebuilt"]))
          [] f.pc = "returnRebuilt" ->
               Pure(h, Return(st, [ref |-> f.x, ref2 |-> f.m, found |-> TRUE]))
          [] f.pc = "count" ->
               Effect([h EXCEPT ![f.m].count = 1],
                      Goto(st, [f EXCEPT !.pc = "cut"]))
          [] f.pc = "cut" ->
               Effect(IF right THEN [h EXCEPT ![f.m].left = nilMap]
                               ELSE [h EXCEPT ![f.m].right = nilMap],
                      Goto(st, [f EXCEPT !.pc = "returnCut"]))
          [] f.pc = "returnCut" ->
               Pure(h, Return(st, [ref |-> f.m, ref2 |-> away, found |-> TRUE]))

\* the next statement of the goroutine
stmt(h, st) ==
    CASE Top(st).fn = "set" -> setStmt(h, st)
      [] Top(st).fn = "delete" -> deleteStmt(h, st)
      [] Top(st).fn = "deleteRightmost" -> extremeStmt(h, st, TRUE)
      [] Top(st).fn = "deleteLeftmost" -> extremeStmt(h, st, FALSE)

\* statements up to and including the next allocation or field write, or
\* up to the return of the call
RECURSIVE runToEffect(_, _)
runToEffect(h, st) ==
    LET r == stmt(h, st)
    IN  IF r.effect \/ r.st.done THEN r ELSE runToEffect(r.heap, r.st)

ConcIdle ==
    /\ base = [heap |-> <<nilMapNode>>, root |-> NewMap]
    /\ proc = [p \in Procs |-> idle]

ConcInit ==
    /\ \E order \in BaseOrders :
            LET b == buildMap(<<nilMapNode>>, NewMap, order)
            IN  /\ heap = b.heap
                /\ maps = <<b.ref>>
                /\ base = [heap |-> b.heap, root |-> b.ref]
    /\ nops = 0
    /\ last = [op |-> "NewMap", recv |-> nilMap, key |-> "", value |-> Nil,
               ref |-> nilMap]
    /\ proc = [p \in Procs |-> idle]
    /\ ListInit

\* goroutine p calls Set(k, p) or Delete(k) on the base map
Go(p, op, k) ==
    /\ proc[p].op = "none"
    /\ proc' = [proc EXCEPT ![p] =
                    [idle EXCEPT !.op = op, !.key = k,
                                 !.value = IF op = "Set" THEN p ELSE Nil,
                                 !.stack = <<Frame(IF op = "Set" THEN "set"
                                                   ELSE "delete", base.root)>>]]
    /\ UNCHANGED <<mapVars, listVars, base>>

\* goroutine p runs to its next allocation or write
Run(p) ==
    /\ proc[p].op # "none"
    /\ ~proc[p].done
    /\ LET r == runToEffect(heap, proc[p])
       IN  /\ heap' = r.heap
           /\ proc' = [proc EXCEPT ![p] = r.st]
    /\ UNCHANGED <<maps, nops, last, listVars, base>>

(***************************************************************************)
(* Specifications: the two containers share no state, so each is run on    *)
(* its own, the other one idle.                                            *)
(***************************************************************************)

Init == MapInit /\ ListInit /\ ConcIdle

Next ==
    \/ \E k \in KeySpace : SetChain(k)
    \/ \E i \in DOMAIN maps, k \in KeySpace, v \in ValueSpace : SetOp(i, k, v)
    \/ \E i \in DOMAIN maps, k \in KeySpace : DeleteOp(i, k)

Spec == Init /\ [][Next]_vars

NextList ==
    \/ \E i \in DOMAIN lists, v \in ValueSpace : ConsOp(i, v)
    \/ \E i \in DOMAIN lists : HeadOp(i)
    \/ \E i \in DOMAIN lists : TailOp(i)
    \/ \E i \in DOMAIN lists : ReverseOp(i)

SpecList == Init /\ [][NextList]_vars

NextConc ==
    \/ \E p \in Procs, k \in KeySpace : Go(p, "Set", k)
    \/ \E p \in Procs, k \in KeySpace : Go(p, "Delete", k)
    \/ \E p \in Procs : Run(p)

SpecConc == ConcInit /\ [][NextConc]_vars

(***************************************************************************)
(* Vocabulary of the properties.                                           *)
(***************************************************************************)

\* the map values the program holds
Versions == {maps[i] : i \in DOMAIN maps}

\* the keys stored in the nodes of map m
StoredKeys(h, m) == {ForEach(h, m)[i].key : i \in 1..Len(ForEach(h, m))}

\* the keys Lookup finds in map m
Associated(h, m) == {k \in KeySpace : Lookup(h, m, k).found}

\* k shares its hash with no other key that m or the call involves
DistinctHashes(h, m, k) ==
    \A j \in (StoredKeys(h, m) \cup {k}) \ {k} : hashKey(j) # hashKey(k)

\* the hashes of the keys in map m are pairwise distinct
PairwiseDistinct(h, m) ==
    \A j1, j2 \in Associated(h, m) : j1 # j2 => hashKey(j1) # hashKey(j2)

\* what a caller can observe of map m
Observe(h, m) ==
    [lookup |-> [k \in KeySpace |-> Lookup(h, m, k)],
     size |-> Size(h, m),
     keys |-> Keys(h, m)]

RECURSIVE LexLess(_, _)
LexLess(a, b) ==
    IF b = <<>> THEN FALSE
    ELSE IF a = <<>> THEN TRUE
    ELSE IF Head(a) # Head(b) THEN Head(a) < Head(b)
    ELSE LexLess(Tail(a), Tail(b))

(***************************************************************************)
(* C1.  For every reachable map m, key k and value v (keys with pairwise   *)
(* distinct hashes), m.Set(k, v).Delete(k).Lookup(k) is not found, also    *)
(* when k is not stored at the root of m.Set(k, v).                        *)
(***************************************************************************)
C1_DeleteRemoves ==
    \A m \in Versions, k \in KeySpace, v \in ValueSpace :
        DistinctHashes(heap, m, k) =>
            LET s == Set(heap, m, k, v)
                d == Delete(s.heap, s.ref, k)
            IN  ~Lookup(d.heap, d.ref, k).found

(***************************************************************************)
(* C2.  Delete(k) removes only the association for k: for every reachable  *)
(* map m and key j whose hash differs from k's, m.Delete(k).Lookup(j)      *)
(* equals m.Lookup(j); when k is found below the root, the result's root   *)
(* has the key and value of m's root and its child off the path to k.      *)
(***************************************************************************)
C2_DeleteFrame ==
    \A m \in Versions, k \in KeySpace :
        LET d == Delete(heap, m, k)
        IN  /\ \A j \in KeySpace :
                hashKey(j) # hashKey(k) =>
                    Lookup(d.heap, d.ref, j) = Lookup(heap, m, j)
            /\ (Lookup(heap, m, k).found /\ heap[m].hash # hashKey(k)) =>
                    /\ d.heap[d.ref].key = heap[m].key
                    /\ d.heap[d.ref].value = heap[m].value
                    /\ IF hashKey(k) < heap[m].hash
                       THEN d.heap[d.ref].right = heap[m].right
                       ELSE d.heap[d.ref].left = heap[m].left

(***************************************************************************)
(* C3.  For every reachable map m and key k, m.Delete(k).Size() is         *)
(* m.Size() - 1 when m.Lookup(k) is found and m.Size() when it is not.     *)
(***************************************************************************)
C3_DeleteSize ==
    \A m \in Versions, k \in KeySpace :
        LET d == Delete(heap, m, k)
        IN  Size(d.heap, d.ref) =
                IF Lookup(heap, m, k).found
                THEN Size(heap, m) - 1
                ELSE Size(heap, m)

\* a Delete of a key that was found has been made on a map whose root has
\* two subtrees, the left one the larger: the result is one entry smaller
C3_Witness ==
    /\ last.op = "Delete"
    /\ Lookup(heap, last.recv, last.key).found
    /\ Size(heap, heap[last.recv].left) > Size(heap, heap[last.recv].right)
    /\ hasRight(heap, last.recv)
    /\ Size(heap, last.ref) = Size(heap, last.recv) - 1
    /\ Size(heap, last.ref) = 3

(***************************************************************************)
(* C4.  For every reachable map m, key k and value v,                      *)
(* m.Set(k, v).Lookup(k) returns (v, true).                                *)
(***************************************************************************)
C4_RoundTrip ==
    \A m \in Versions, k \in KeySpace, v \in ValueSpace :
        LET s == Set(heap, m, k, v)
        IN  Lookup(s.heap, s.ref, k) = [value |-> v, found |-> TRUE]

\* a Set has put a new key two levels below the root, and Lookup finds it
C4_Witness ==
    /\ last.op = "Set"
    /\ nops = 1
    /\ ~Lookup(heap, last.recv, last.key).found
    /\ Lookup(heap, last.ref, last.key) = [value |-> last.value, found |-> TRUE]
    /\ hashKey(last.key) # heap[last.ref].hash
    /\ heap[heap[last.ref].left].hash # hashKey(last.key)
    /\ heap[heap[last.ref].right].hash # hashKey(last.key)

(***************************************************************************)
(* C5.  Persistence: no Set or Delete writes a node that exists, so for    *)
(* every map value returned so far (every node is the root of one) Lookup  *)
(* of every key, Size and Keys return after the call what they returned    *)
(* before it.                                                              *)
(***************************************************************************)
C5_Persistence ==
    [][\A a \in DOMAIN heap :
            /\ a \in DOMAIN heap'
            /\ heap'[a] = heap[a]
            /\ Observe(heap', a) = Observe(heap, a)]_vars

\* world = NewMap().Set("hello", 1); kids = world.Set("hello", 2):
\* world still holds 1 and kids holds 2
C5_Witness ==
    /\ Len(maps) = 2
    /\ last.op = "Set" /\ last.recv = maps[1] /\ last.key = "hello"
    /\ maps[2] # maps[1]
    /\ Lookup(heap, maps[1], "hello") = [value |-> 1, found |-> TRUE]
    /\ Lookup(heap, maps[2], "hello") = [value |-> 2, found |-> TRUE]
    /\ Size(heap, maps[1]) = 1 /\ Size(heap, maps[2]) = 1
    /\ Keys(heap, maps[1]).keys = <<"hello">>

(***************************************************************************)
(* C6.  Overwrite: for every map m, key k and values v1, v2,               *)
(* m.Set(k, v1).Set(k, v2).Lookup(k) returns (v2, true), and the second    *)
(* Set leaves Size() as the first one left it.                             *)
(***************************************************************************)
C6_Overwrite ==
    \A m \in Versions, k \in KeySpace, v1 \in ValueSpace, v2 \in ValueSpace :
        LET s1 == Set(heap, m, k, v1)
            s2 == Set(s1.heap, s1.ref, k, v2)
        IN  /\ Lookup(s2.heap, s2.ref, k) = [value |-> v2, found |-> TRUE]
            /\ Size(s2.heap, s2.ref) = Size(s1.heap, s1.ref)

\* a key of a map of three keys, stored below the root by a first Set, was
\* given another value by a second Set
C6_Witness ==
    /\ Len(maps) = 2
    /\ last.op = "Set" /\ last.recv = maps[1]
    /\ Lookup(heap, maps[1], last.key).found
    /\ Lookup(heap, maps[1], last.key).value # last.value
    /\ Lookup(heap, maps[2], last.key).value = last.value
    /\ heap[maps[2]].key # last.key
    /\ Size(heap, maps[2]) = 3 /\ Size(heap, maps[1]) = 3

(***************************************************************************)
(* C7.  Set(k, v) changes only the association of k: for every reachable   *)
(* map m and key j whose hash differs from k's, m.Set(k, v).Lookup(j)      *)
(* equals m.Lookup(j); Size() grows by one when k was not in m and stays   *)
(* when it was.                                                            *)
(***************************************************************************)
C7_SetFrame ==
    \A m \in Versions, k \in KeySpace, v \in ValueSpace :
        LET s == Set(heap, m, k, v)
        IN  /\ \A j \in KeySpace :
                hashKey(j) # hashKey(k) =>
                    Lookup(s.heap, s.ref, j) = Lookup(heap, m, j)
            /\ Size(s.heap, s.ref) =
                    IF Lookup(heap, m, k).found
                    THEN Size(heap, m)
                    ELSE Size(heap, m) + 1

\* a Set has added a fourth key to a map of three, below the root
C7_Witness ==
    /\ last.op = "Set"
    /\ nops > 0
    /\ ~Lookup(heap, last.recv, last.key).found
    /\ Size(heap, last.recv) = 3
    /\ Size(heap, last.ref) = 4
    /\ heap[last.ref].key = heap[last.recv].key
    /\ \A j \in Associated(heap, last.recv) :
            Lookup(heap, last.ref, j) = Lookup(heap, last.recv, j)

(***************************************************************************)
(* C8.  For every reachable map, Keys() returns a sequence of length       *)
(* Size() that contains each key currently associated in the map exactly   *)
(* once and no other key, in strictly increasing order of the keys'        *)
(* hashes.                                                                 *)
(***************************************************************************)
C8_KeysAll ==
    \A m \in Versions :
        LET ks == Keys(heap, m)
        IN  /\ ~ks.panic
            /\ Len(ks.keys) = Size(heap, m)
            /\ \A k \in Associated(heap, m) :
                    Cardinality({i \in DOMAIN ks.keys : ks.keys[i] = k}) = 1
            /\ \A i \in DOMAIN ks.keys : ks.keys[i] \in Associated(heap, m)
            /\ \A i, j \in DOMAIN ks.keys :
                    i < j => hashKey(ks.keys[i]) < hashKey(ks.keys[j])

(***************************************************************************)
(* C8, amended.  For every reachable map, Keys() returns a sequence of     *)
(* length Size(), in strictly increasing order of the keys' hashes, whose  *)
(* entries are all associated keys and which holds, for every associated   *)
(* key, exactly one entry with that key's hash: each associated key        *)
(* exactly once when the hashes of the associated keys are pairwise        *)
(* distinct.                                                               *)
(***************************************************************************)
C8_KeysPerHash ==
    \A m \in Versions :
        LET ks == Keys(heap, m)
        IN  /\ ~ks.panic
            /\ Len(ks.keys) = Size(heap, m)
            /\ \A k \in Associated(heap, m) :
                    Cardinality({i \in DOMAIN ks.keys :
                                    hashKey(ks.keys[i]) = hashKey(k)}) = 1
            /\ PairwiseDistinct(heap, m) =>
                    \A k \in Associated(heap, m) :
                        Cardinality({i \in DOMAIN ks.keys : ks.keys[i] = k}) = 1
            /\ \A i \in DOMAIN ks.keys : ks.keys[i] \in Associated(heap, m)
            /\ \A i, j \in DOMAIN ks.keys :
                    i < j => hashKey(ks.keys[i]) < hashKey(ks.keys[j])

\* Keys() of a map of four keys, returned by a Set, lists them in hash
\* order, which is not the lexical order of the keys
C8_Witness ==
    /\ nops = 1
    /\ last.op = "Set"
    /\ Keys(heap, last.ref).keys = <<"one", "three", "two", "hello">>
    /\ \E i \in 1..3 :
            LexLess(Bytes[Keys(heap, last.ref).keys[i + 1]],
                    Bytes[Keys(heap, last.ref).keys[i]])

(***************************************************************************)
(* C9.  Head() and Tail() panic exactly when called on the empty list, on  *)
(* every list built by Cons (or Tail or Reverse) they return normally,     *)
(* and a call that panics changes no list.                                 *)
(***************************************************************************)
C9_PanicOnEmpty ==
    /\ [](\A l \in DOMAIN lheap :
            /\ listHead(lheap, l).panic <=> listSize(lheap, l) = 0
            /\ listTail(lheap, l).panic <=> listSize(lheap, l) = 0
            /\ listSize(lheap, l) = 0 <=> l = NewList)
    /\ [][llast'.panic =>
            /\ llast'.op \in {"Head", "Tail"}
            /\ llast'.recv = NewList
            /\ lheap' = lheap
            /\ lists' = lists]_vars

\* Tail() was called on the empty list obtained as the tail of a one-element
\* list, and panicked, while the program holds non-empty lists
C9_Witness ==
    /\ llast.panic
    /\ llast.op = "Tail"
    /\ Len(lists) >= 3
    /\ \E i \in DOMAIN lists : listSize(lheap, lists[i]) > 0
    /\ lists[Len(lists)] = NewList

(***************************************************************************)
(* C10.  For every list l and value v, l.Cons(v) is one new node with      *)
(* Head() = v, Tail() the very list l and Size() = l.Size() + 1; every     *)
(* list reachable by Cons, Tail and Reverse has depth = 1 + depth(tail),   *)
(* and depth 0 only for the canonical empty list.                          *)
(***************************************************************************)
C10_Cons ==
    /\ \A l \in DOMAIN lheap, v \in ValueSpace :
            LET c == listCons(lheap, l, v)
            IN  /\ c.ref \notin DOMAIN lheap
                /\ DOMAIN c.heap = DOMAIN lheap \cup {c.ref}
                /\ \A a \in DOMAIN lheap : c.heap[a] = lheap[a]
                /\ listHead(c.heap, c.ref) = [panic |-> FALSE, value |-> v]
                /\ listTail(c.heap, c.ref) = [panic |-> FALSE, ref |-> l]
                /\ listSize(c.heap, c.ref) = listSize(lheap, l) + 1
    /\ \A l \in DOMAIN lheap :
            IF l = NewList
            THEN lheap[l].depth = 0
            ELSE /\ lheap[l].tail \in DOMAIN lheap
                 /\ lheap[l].depth = 1 + lheap[lheap[l].tail].depth

\* Cons was called on the tail of a reversed list
C10_Witness ==
    /\ llast.op = "Cons"
    /\ listSize(lheap, llast.ref) = 2
    /\ llast.recv # NewList
    /\ lheap[llast.ref].tail = llast.recv
    /\ \E i, j \in DOMAIN lists :
            /\ lheap[lists[j]].tail = llast.recv
            /\ lists[j] # llast.ref
            /\ listSize(lheap, lists[i]) = 2
            /\ listForEach(lheap, lists[j]) # listForEach(lheap, lists[i])
            /\ lists[j] # lists[i]

\* a sequence back to front
Backwards(seq) == [i \in 1..Len(seq) |-> seq[Len(seq) + 1 - i]]

(***************************************************************************)
(* C11.  For every list l, l.Reverse() is a list of the same Size() whose  *)
(* elements from head to tail are the elements of l from tail to head,     *)
(* and the call changes no cell of l: its Size, Head and every element     *)
(* along its Tail chain are as before.                                     *)
(***************************************************************************)
C11_Reverse ==
    \A l \in DOMAIN lheap :
        LET r == listReverse(lheap, l)
        IN  /\ listSize(r.heap, r.ref) = listSize(lheap, l)
            /\ listForEach(r.heap, r.ref) = Backwards(listForEach(lheap, l))
            /\ Len(listForEach(r.heap, r.ref)) = listSize(r.heap, r.ref)
            /\ \A a \in DOMAIN lheap : r.heap[a] = lheap[a]
            /\ listSize(r.heap, l) = listSize(lheap, l)
            /\ listHead(r.heap, l) = listHead(lheap, l)
            /\ listForEach(r.heap, l) = listForEach(lheap, l)

\* Reverse() was called on a list of three elements that does not read the
\* same in both directions; the result holds them back to front
C11_Witness ==
    /\ llast.op = "Reverse"
    /\ listSize(lheap, llast.recv) = 3
    /\ listForEach(lheap, llast.recv) = <<1, 2, 2>>
    /\ listForEach(lheap, llast.ref) = <<2, 2, 1>>
    /\ llast.ref # llast.recv


\* the nodes reachable from m along left and right
RECURSIVE Reach(_, _)
Reach(h, m) ==
    IF m = nilPtr THEN {}
    ELSE IF IsNil(m) THEN {nilMap}
    ELSE {m} \cup Reach(h, h[m].left) \cup Reach(h, h[m].right)

\* the nodes a goroutine holds in its activation records and return values
Held(st) ==
    ({st.ret.ref, st.ret.ref2}
        \cup UNION {{st.stack[i].self, st.stack[i].m, st.stack[i].x,
                     st.stack[i].y} : i \in DOMAIN st.stack}) \ {nilPtr}

\* everything reachable from the base map and from the goroutines other
\* than p
ReachableByOthers(p) ==
    UNION {Reach(heap, m) :
              m \in {base.root} \cup UNION {Held(proc[q]) : q \in Procs \ {p}}}

\* the tree below m: nodes of the base map by reference, others by content
RECURSIVE Shape(_, _, _)
Shape(h, m, n) ==
    IF m <= n THEN <<m>>
    ELSE <<h[m].count, h[m].hash, h[m].key, h[m].value,
           Shape(h, h[m].left, n), Shape(h, h[m].right, n)>>

\* the result of the call of goroutine p made alone on the base map
Alone(p) ==
    IF proc[p].op = "Set"
    THEN Set(base.heap, base.root, proc[p].key, proc[p].value)
    ELSE Delete(base.heap, base.root, proc[p].key)

(* C12. Two goroutines that concurrently run Set or Delete on the same    *)
(* base map, their allocations and field writes interleaved in any order, *)
(* never write a node that the other goroutine or the base map can reach; *)
(* each obtains the result its call gives when run alone (the same        *)
(* entries, counts and shape, sharing the same nodes of the base map),    *)
(* and the base map is unchanged.                                         *)
C12_Isolated ==
    /\ [][\A p \in Procs :
              proc'[p] # proc[p] =>
                  \A a \in ReachableByOthers(p) : heap'[a] = heap[a]]_vars
    /\ [](/\ \A a \in DOMAIN base.heap : heap[a] = base.heap[a]
          /\ Observe(heap, base.root) = Observe(base.heap, base.root)
          /\ \A p \in Procs :
                 proc[p].done =>
                     Shape(heap, proc[p].ret.ref, Len(base.heap))
                       = Shape(Alone(p).heap, Alone(p).ref, Len(base.heap)))

\* both calls have returned new maps whose nodes were allocated alternately
C12_Witness ==
    /\ proc[1].done /\ proc[2].done
    /\ proc[1].op = "Set" /\ proc[2].op = "Delete"
    /\ Size(base.heap, base.root) = 4
    /\ \E a, b, c \in DOMAIN heap :
           /\ Len(base.heap) < a /\ a < b /\ b < c
           /\ {a, c} \subseteq Reach(heap, proc[1].ret.ref)
           /\ b \in Reach(heap, proc[2].ret.ref)
           /\ b \notin Reach(heap, proc[1].ret.ref)


\* the non-empty nodes of map m
Nodes(h, m) == Reach(h, m) \ {nilMap}

\* the maps one more call of Set or Delete yields from the held versions
OneCallOn(m) ==
    {Set(heap, m, k, v) : k \in KeySpace, v \in ValueSpace}
        \cup {Delete(heap, m, k) : k \in KeySpace}

\* the held versions with the heap they live in, and the results of one
\* more call on each
Returned ==
    {[heap |-> heap, ref |-> m] : m \in Versions}
        \cup UNION {OneCallOn(m) : m \in Versions}

CountOK(h, m) ==
    /\ \A n \in Nodes(h, m) :
           h[n].count = 1 + h[h[n].left].count + h[h[n].right].count
    /\ Size(h, m) = Cardinality(Nodes(h, m))
    /\ Size(h, m) = Len(ForEach(h, m))

(* C13. Count invariant: in every map returned after a sequence of Set    *)
(* and Delete from NewMap(), every non-empty node reachable from the root *)
(* has count = 1 + count(left) + count(right), and Size() is the number   *)
(* of entries of the map.                                                 *)
C13_Count == \A r \in Returned : CountOK(r.heap, r.ref)

\* a Delete replaced a node with two children by the leftmost node of its
\* right child, whose count the code resets before recalculating
C13_Witness ==
    /\ last.op = "Delete"
    /\ Size(heap, last.recv) = 4
    /\ Size(heap, last.ref) = 3
    /\ last.ref \notin Nodes(heap, last.recv)
    /\ heap[last.ref].count = 3
    /\ heap[heap[last.ref].right].count = 1

OrderOK(h, m) ==
    \A n \in Nodes(h, m) :
        /\ \A a \in Nodes(h, h[n].left) : h[a].hash < h[n].hash
        /\ \A a \in Nodes(h, h[n].right) : h[a].hash > h[n].hash

(* C14. Search-tree invariant: in every map returned after a sequence of  *)
(* Set and Delete from NewMap(), every hash in a node's left subtree is   *)
(* strictly smaller than the node's hash and every hash in its right      *)
(* subtree strictly larger, also below the replacement chosen when a node *)
(* with two children is deleted.                                          *)
C14_Order == \A r \in Returned : OrderOK(r.heap, r.ref)

\* a Delete replaced a node with two children by the rightmost node of
\* its bigger left child
C14_Witness ==
    /\ last.op = "Delete"
    /\ Size(heap, last.recv) = 4
    /\ Size(heap, heap[last.recv].left) = 2
    /\ Size(heap, heap[last.recv].right) = 1
    /\ hashKey(last.key) = heap[last.recv].hash
    /\ Size(heap, last.ref) = 3
    /\ heap[last.ref].right = heap[last.recv].right
    /\ heap[last.ref].hash < heap[last.recv].hash


\* the entries stored below m
Entries(h, m) ==
    {[key |-> h[a].key, value |-> h[a].value, hash |-> h[a].hash] :
        a \in Nodes(h, m)}

EntryAt(h, a) == [key |-> h[a].key, value |-> h[a].value, hash |-> h[a].hash]

\* the node of greatest, of least hash below a non-empty m
MaxNode(h, m) ==
    CHOOSE a \in Nodes(h, m) : \A b \in Nodes(h, m) : h[b].hash <= h[a].hash

MinNode(h, m) ==
    CHOOSE a \in Nodes(h, m) : \A b \in Nodes(h, m) : h[b].hash >= h[a].hash

\* the nodes with two non-empty children in the held versions
TwoChildNodes ==
    {n \in UNION {Nodes(heap, m) : m \in Versions} :
        hasLeft(heap, n) /\ hasRight(heap, n)}

(* C15. When deleteLowLevel reaches the node n whose hash is the target   *)
(* hash and n has two non-empty children, the subtree returned in place   *)
(* of n has at its root the key and value of the maximum-hash node of     *)
(* n.left if Size(n.left) > Size(n.right), and otherwise, ties included,  *)
(* those of the minimum-hash node of n.right; the side not extracted from *)
(* is n's own child on that side, by reference, and the other side holds  *)
(* exactly the remaining entries of that child.                           *)
C15_Replacement ==
    \A n \in TwoChildNodes :
        LET r == deleteLowLevel(heap, n, heap[n].hash)
            L == heap[n].left
            R == heap[n].right
            root == r.heap[r.ref]
        IN  /\ r.found
            /\ \A a \in DOMAIN heap : r.heap[a] = heap[a]
            /\ IF Size(heap, L) > Size(heap, R)
               THEN /\ EntryAt(r.heap, r.ref) = EntryAt(heap, MaxNode(heap, L))
                    /\ root.right = R
                    /\ Entries(r.heap, root.left)
                         = Entries(heap, L) \ {EntryAt(heap, MaxNode(heap, L))}
                    /\ Size(r.heap, root.left) = Size(heap, L) - 1
               ELSE /\ EntryAt(r.heap, r.ref) = EntryAt(heap, MinNode(heap, R))
                    /\ root.left = L
                    /\ Entries(r.heap, root.right)
                         = Entries(heap, R) \ {EntryAt(heap, MinNode(heap, R))}
                    /\ Size(r.heap, root.right) = Size(heap, R) - 1

\* a Delete of the root key of a map whose root has two children of equal
\* size 1: the tie took the replacement from the right child
C15_Witness ==
    /\ last.op = "Delete"
    /\ hashKey(last.key) = heap[last.recv].hash
    /\ Size(heap, heap[last.recv].left) = 1
    /\ Size(heap, heap[last.recv].right) = 1
    /\ heap[last.ref].key = heap[heap[last.recv].right].key
    /\ heap[last.ref].left = heap[last.recv].left
    /\ IsNil(heap[last.ref].right)


(* C16. Delete of a key whose hash is not in the map returns the receiver *)
(* itself: for every map m reachable by Set and Delete and every key k    *)
(* that m.Lookup(k) does not find, m.Delete(k) is m, by reference, and no *)
(* node is created.                                                       *)
C16_DeleteAbsent ==
    \A r \in Returned : \A k \in KeySpace :
        ~Lookup(r.heap, r.ref, k).found =>
            /\ Delete(r.heap, r.ref, k).ref = r.ref
            /\ Delete(r.heap, r.ref, k).heap = r.heap

\* a Delete that searched a map of three entries down its left side for a
\* key that is not there
C16_Witness ==
    /\ last.op = "Delete"
    /\ ~Lookup(heap, last.recv, last.key).found
    /\ Size(heap, last.recv) = 3
    /\ hashKey(last.key) < heap[last.recv].hash
    /\ hasLeft(heap, last.recv)
    /\ last.ref = last.recv

\* the depth of the tree below m
RECURSIVE Depth(_, _)
Depth(h, m) ==
    IF IsNil(m) THEN 0
    ELSE LET l == Depth(h, h[m].left)
             r == Depth(h, h[m].right)
         IN  1 + (IF l > r THEN l ELSE r)

\* the number of positions from m down to the position of hash
RECURSIVE PathLen(_, _, _)
PathLen(h, m, hash) ==
    IF IsNil(m) \/ hash = h[m].hash THEN 1
    ELSE 1 + PathLen(h, IF hash < h[m].hash THEN h[m].left ELSE h[m].right,
                     hash)

\* a2 in heap h2 is the new node at the position of a on the path to hash,
\* and below it every child off the path is the child a has in heap h
RECURSIVE PathShared(_, _, _, _, _)
PathShared(h, h2, a, a2, hash) ==
    /\ a2 \notin DOMAIN h
    /\ IF IsNil(a) THEN
           IsNil(h2[a2].left) /\ IsNil(h2[a2].right)
       ELSE IF hash < h[a].hash THEN
           /\ h2[a2].right = h[a].right
           /\ PathShared(h, h2, h[a].left, h2[a2].left, hash)
       ELSE IF hash > h[a].hash THEN
           /\ h2[a2].left = h[a].left
           /\ PathShared(h, h2, h[a].right, h2[a2].right, hash)
       ELSE
           /\ h2[a2].left = h[a].left
           /\ h2[a2].right = h[a].right

(* C17. Structural sharing on Set: for m2 = m.Set(k, v), at every node on *)
(* the path from the root to the position of k's hash the child off the   *)
(* path is the same node in m and m2, and only the nodes of that path are *)
(* newly created, at most depth(m) + 1 of them.                           *)
C17_SetSharing ==
    \A m \in Versions : \A k \in KeySpace, v \in ValueSpace :
        LET r == Set(heap, m, k, v)
            new == DOMAIN r.heap \ DOMAIN heap
        IN  /\ \A a \in DOMAIN heap : r.heap[a] = heap[a]
            /\ PathShared(heap, r.heap, m, r.ref, hashKey(k))
            /\ new = Nodes(r.heap, r.ref) \ Nodes(heap, m)
            /\ Cardinality(new) = PathLen(heap, m, hashKey(k))
            /\ Cardinality(new) <= Depth(heap, m) + 1

\* a Set that replaced the value at a node with two children below the
\* root of a map of four entries: two new nodes, three shared
C17_Witness ==
    /\ last.op = "Set"
    /\ Size(heap, last.recv) = 4
    /\ Size(heap, last.ref) = 4
    /\ hashKey(last.key) # heap[last.recv].hash
    /\ \E a \in Nodes(heap, last.ref) \ Nodes(heap, last.recv) :
           /\ heap[a].key = last.key
           /\ hasLeft(heap, a) /\ hasRight(heap, a)
           /\ {heap[a].left, heap[a].right} \subseteq Nodes(heap, last.recv)
    /\ Cardinality(Nodes(heap, last.ref) \ Nodes(heap, last.recv)) = 2


\* Set under a key k2 colliding with the stored key k1 replaces in place
CollisionOnSet(m, k1, k2, v) ==
    LET s == Set(heap, m, k2, v)
    IN  /\ Size(s.heap, s.ref) = Size(heap, m)
        /\ Lookup(s.heap, s.ref, k1) = [value |-> v, found |-> TRUE]
        /\ Lookup(s.heap, s.ref, k2) = [value |-> v, found |-> TRUE]

\* Delete under a key k2 colliding with the stored key k1 removes the
\* entry stored under k1
CollisionOnDelete(m, k1, k2) ==
    LET d == Delete(heap, m, k2)
    IN  /\ k1 \notin StoredKeys(d.heap, d.ref)
        /\ ~Lookup(d.heap, d.ref, k1).found
        /\ Size(d.heap, d.ref) = Size(heap, m) - 1

(* C18. Hash equality is treated as key equality: if k1 is in m and k2 is *)
(* a different key with the same hash, then m.Set(k2, v) has the Size()   *)
(* of m, Lookup(k1) and Lookup(k2) on it both return (v, true), and       *)
(* m.Delete(k2) removes the entry stored under k1.                        *)
C18_HashIsKey ==
    \A m \in Versions : \A k1, k2 \in KeySpace :
        (k1 # k2 /\ hashKey(k1) = hashKey(k2) /\ k1 \in StoredKeys(heap, m)) =>
            /\ \A v \in ValueSpace : CollisionOnSet(m, k1, k2, v)
            /\ CollisionOnDelete(m, k1, k2)


\* every node a map can reach, the empty instance included, has two
\* children that are nodes
NoNullChild(h, m) ==
    \A n \in Reach(h, m) :
        /\ h[n].left # nilPtr /\ h[n].left \in DOMAIN h
        /\ h[n].right # nilPtr /\ h[n].right \in DOMAIN h

(* C19. Canonical empty map: every map with no entries that is returned   *)
(* after a sequence of Set and Delete is the single canonical empty       *)
(* instance, so IsNil() is true if and only if Size() = 0; that instance  *)
(* always has count 0 and left and right pointing to itself, and no node  *)
(* reachable from any map has a null child.                               *)
C19_CanonicalEmpty ==
    \A r \in Returned :
        /\ IsNil(r.ref) <=> Size(r.heap, r.ref) = 0
        /\ \A n \in Nodes(r.heap, r.ref) : r.heap[n].count > 0
        /\ r.heap[nilMap].count = 0
        /\ r.heap[nilMap].left = nilMap
        /\ r.heap[nilMap].right = nilMap
        /\ NoNullChild(r.heap, r.ref)

\* a Delete took the only entry of a map and returned the empty instance
C19_Witness ==
    /\ last.op = "Delete"
    /\ Size(heap, last.recv) = 1
    /\ heap[last.recv].key = last.key
    /\ last.ref = nilMap
    /\ last.recv # nilMap

====
